---- MODULE Spec2Model ----
(***************************************************************************)
(* Model of the Dealroom extraction pipeline                               *)
(* (src/src/parser/dealroom_extractor.py).                                 *)
(*                                                                         *)
(* One run of DealroomExtractor.extract_company_data is a behaviour: the   *)
(* initial state holds the parsed document and an empty CompanyRecord, and *)
(* each pass of the pipeline is one action.  The two loops that call the   *)
(* social-link classifier take one step per classifier call.  Strings are  *)
(* TLA+ strings, and substring tests, lower-casing and trimming are        *)
(* computed on their characters.  Python values are tagged tuples.         *)
(***************************************************************************)
EXTENDS Integers, Sequences, FiniteSets, TLC

\* one call of DealroomExtractor.extract_company_data
VARIABLES html, source_url, pc, ld_org, pending, record, result

\* one run of main() with its worker tasks
VARIABLES identifiers, max_workers, max_retries, main_pc, tasks, results,
          output_file, summary, exit_status

extractor_vars == <<html, source_url, pc, ld_org, pending, record, result>>

driver_vars == <<identifiers, max_workers, max_retries, main_pc, tasks, results,
                 output_file, summary, exit_status>>

vars == <<html, source_url, pc, ld_org, pending, record, result,
          identifiers, max_workers, max_retries, main_pc, tasks, results,
          output_file, summary, exit_status>>

-----------------------------------------------------------------------------
(* Bounds of the model.                                                    *)

MaxAnchors == 2
MaxSameAs == 2
MaxKeywords == 2
MaxRounds == 2
MaxInvestors == 2
MaxIdentifiers == 3
MaxWorkers == 2
MaxRetries == 2

-----------------------------------------------------------------------------
(* Python values: None, str, int, bool, list, dict (insertion-ordered).    *)

None == <<"null">>
Str(s) == <<"str", s>>
Num(n) == <<"num", n>>
Bool(b) == <<"bool", b>>
List(seq) == <<"list", seq>>
Dict(pairs) == <<"dict", pairs>>

is_none(v) == v[1] = "null"
is_str(v) == v[1] = "str"
is_list(v) == v[1] = "list"
is_dict(v) == v[1] = "dict"
\* isinstance(v, (int, float)): bool is a subclass of int
is_number(v) == v[1] \in {"num", "bool"}

\* Python truthiness: None, "", 0, False, [] and {} are falsy
truthy(v) ==
    CASE v[1] = "null" -> FALSE
      [] v[1] = "str" -> v[2] # ""
      [] v[1] = "num" -> v[2] # 0
      [] v[1] = "bool" -> v[2]
      [] OTHER -> Len(v[2]) > 0

\* a or b
py_or(a, b) == IF truthy(a) THEN a ELSE b

\* hash(v) raises TypeError for list and dict
unhashable(v) == v[1] \in {"list", "dict"}

has_key(d, key) == \E i \in 1..Len(d[2]) : d[2][i][1] = key

\* d[key] for a key that is present
item(d, key) == d[2][CHOOSE i \in 1..Len(d[2]) : d[2][i][1] = key][2]

\* d.get(key)
get(d, key) == IF has_key(d, key) THEN item(d, key) ELSE None

\* d.setdefault(key, value)
setdefault(d, key, value) ==
    IF has_key(d, key) THEN d ELSE Dict(Append(d[2], <<key, value>>))

\* d.values()
values(d) == [i \in 1..Len(d[2]) |-> d[2][i][2]]

-----------------------------------------------------------------------------
(* Strings.                                                                *)

UpperCase == "ABCDEFGHIJKLMNOPQRSTUVWXYZ"
LowerCase == "abcdefghijklmnopqrstuvwxyz"

char(s, i) == SubSeq(s, i, i)

lower_char(c) ==
    IF \E i \in 1..Len(UpperCase) : char(UpperCase, i) = c
    THEN char(LowerCase, CHOOSE i \in 1..Len(UpperCase) : char(UpperCase, i) = c)
    ELSE c

RECURSIVE lower(_)
\* str.lower()
lower(s) ==
    IF Len(s) = 0 THEN ""
    ELSE IF Len(s) = 1 THEN lower_char(s)
    ELSE lower(SubSeq(s, 1, Len(s) \div 2)) \o lower(SubSeq(s, Len(s) \div 2 + 1, Len(s)))

\* needle in hay
contains(hay, needle) ==
    \E i \in 1..(Len(hay) - Len(needle) + 1) : SubSeq(hay, i, i + Len(needle) - 1) = needle

\* str.startswith(prefix)
startswith(s, prefix) == Len(s) >= Len(prefix) /\ SubSeq(s, 1, Len(prefix)) = prefix

RECURSIVE lstrip(_)
lstrip(s) == IF s # "" /\ char(s, 1) = " " THEN lstrip(SubSeq(s, 2, Len(s))) ELSE s

RECURSIVE rstrip(_)
rstrip(s) == IF s # "" /\ char(s, Len(s)) = " " THEN rstrip(SubSeq(s, 1, Len(s) - 1)) ELSE s

\* str.strip()
strip(s) == rstrip(lstrip(s))

RECURSIVE join(_, _)
\* sep.join(parts)
join(parts, sep) ==
    IF Len(parts) = 0 THEN ""
    ELSE IF Len(parts) = 1 THEN parts[1]
    ELSE join(SubSeq(parts, 1, Len(parts) \div 2), sep) \o sep
         \o join(SubSeq(parts, Len(parts) \div 2 + 1, Len(parts)), sep)

\* characters in code-point order, for comparing strings
CodePoints == " '+,-./0123456789:ABCDEFGHIJKLMNOPQRSTUVWXYZ[]_abcdefghijklmnopqrstuvwxyz{}"

code_point(c) == CHOOSE i \in 1..Len(CodePoints) : char(CodePoints, i) = c

RECURSIVE str_less(_, _)
\* a < b on str
str_less(a, b) ==
    IF b = "" THEN FALSE
    ELSE IF a = "" THEN TRUE
    ELSE IF char(a, 1) = char(b, 1) THEN str_less(SubSeq(a, 2, Len(a)), SubSeq(b, 2, Len(b)))
    ELSE code_point(char(a, 1)) < code_point(char(b, 1))

RECURSIVE sorted_set(_)
\* sorted(set(strings)), as a sequence
sorted_set(S) ==
    IF S = {} THEN <<>>
    ELSE LET least == CHOOSE x \in S : \A y \in S \ {x} : str_less(x, y)
         IN <<least>> \o sorted_set(S \ {least})

range(seq) == {seq[i] : i \in 1..Len(seq)}

RECURSIVE py_repr(_)
RECURSIVE py_repr_items(_)
RECURSIVE py_repr_pairs(_)
\* repr(v)
py_repr(v) ==
    CASE v[1] = "null" -> "None"
      [] v[1] = "str" -> "'" \o v[2] \o "'"
      [] v[1] = "num" -> ToString(v[2])
      [] v[1] = "bool" -> (IF v[2] THEN "True" ELSE "False")
      [] v[1] = "list" -> "[" \o join(py_repr_items(v[2]), ", ") \o "]"
      [] OTHER -> "{" \o join(py_repr_pairs(v[2]), ", ") \o "}"
py_repr_items(seq) == [i \in 1..Len(seq) |-> py_repr(seq[i])]
py_repr_pairs(seq) == [i \in 1..Len(seq) |-> "'" \o seq[i][1] \o "': " \o py_repr(seq[i][2])]

\* str(v)
py_str(v) == IF is_str(v) THEN v[2] ELSE py_repr(v)

\* a == b on hashable values: True == 1 and False == 0
py_eq(a, b) ==
    LET as_int(v) == IF v[1] = "bool" THEN (IF v[2] THEN 1 ELSE 0) ELSE v[2]
    IN IF is_number(a) /\ is_number(b) THEN as_int(a) = as_int(b) ELSE a = b

RECURSIVE dumps(_)
RECURSIVE dumps_items(_)
RECURSIVE dumps_pairs(_)
\* json.dumps(v): the text json.loads reads v from
dumps(v) ==
    CASE v[1] = "null" -> "null"
      [] v[1] = "str" -> "\"" \o v[2] \o "\""
      [] v[1] = "num" -> ToString(v[2])
      [] v[1] = "bool" -> (IF v[2] THEN "true" ELSE "false")
      [] v[1] = "list" -> "[" \o join(dumps_items(v[2]), ", ") \o "]"
      [] OTHER -> "{" \o join(dumps_pairs(v[2]), ", ") \o "}"
dumps_items(seq) == [i \in 1..Len(seq) |-> dumps(seq[i])]
dumps_pairs(seq) == [i \in 1..Len(seq) |-> "\"" \o seq[i][1] \o "\": " \o dumps(seq[i][2])]

-----------------------------------------------------------------------------
(* The parsed document (BeautifulSoup).  A script element carries its raw  *)
(* text and what json.loads makes of it; a meta or link element is NoTag   *)
(* when the document has none, and else carries its attribute (None when   *)
(* the attribute is missing).                                              *)

JSONDecodeError == <<"JSONDecodeError">>
NoTag == <<"notag">>
LD_JSON == "application/ld+json"

\* <script type=...> holding the JSON text of value v
json_script(type, v) == [type |-> type, raw |-> dumps(v), data |-> v]
\* <script type=...> holding text that is not JSON
text_script(type, raw) == [type |-> type, raw |-> raw, data |-> JSONDecodeError]

\* a tag carrying one attribute value
tag(value) == <<"tag", value>>
\* tag.get(attribute)
attr(t) == t[2]

\* json.loads(raw)
loads(script) == script.data

\* soup.find_all("script", type="application/ld+json")
ld_scripts(soup) == SelectSeq(soup.scripts, LAMBDA s : s.type = LD_JSON)

-----------------------------------------------------------------------------
(* CompanyRecord and its serialisation.                                    *)

FieldNames ==
    {"about", "company_status", "funding_rounds", "growth_stage", "employees",
     "similarweb_traffic", "social_links", "investors", "industries", "team",
     "hq_locations", "kpi_summary", "nearby_companies", "related_companies", "news",
     "website_url", "linkedin_url", "twitter_url", "instagram_url", "raw_source_url"}

\* CompanyRecord(raw_source_url=url)
CompanyRecord(url) ==
    [about |-> None, company_status |-> None, funding_rounds |-> List(<<>>),
     growth_stage |-> None, employees |-> None, similarweb_traffic |-> None,
     social_links |-> Dict(<<>>), investors |-> List(<<>>), industries |-> List(<<>>),
     team |-> List(<<>>), hq_locations |-> List(<<>>), kpi_summary |-> Dict(<<>>),
     nearby_companies |-> List(<<>>), related_companies |-> List(<<>>),
     news |-> List(<<>>), website_url |-> None, linkedin_url |-> None,
     twitter_url |-> None, instagram_url |-> None, raw_source_url |-> url]

\* dropped, were empty containers kept
dropped_only_none(value) == is_none(value)

\* the test that drops a field from the serialised record
dropped(value) == is_none(value) \/ ((is_list(value) \/ is_dict(value)) /\ Len(value[2]) = 0)

\* to_dict, were data returned in place of cleaned
to_dict_unfiltered(rec) == [key \in FieldNames |-> rec[key]]

\* CompanyRecord.to_dict: the mapping from the kept keys to their values
to_dict(rec) == [key \in {k \in FieldNames : ~dropped(rec[k])} |-> rec[key]]

-----------------------------------------------------------------------------
(* JSON-LD locator.                                                        *)

OrgTypesInList == {"organization", "corp", "corporation"}
OrgTypes == {"organization", "corp", "corporation", "company"}

RECURSIVE any_org_type(_)
\* any(t.lower() in (...) for t in obj_type): "true", "false", or "raise" when
\* an entry met before a match has no lower()
any_org_type(types) ==
    IF Len(types) = 0 THEN "false"
    ELSE IF ~is_str(Head(types)) THEN "raise"
    ELSE IF lower(Head(types)[2]) \in OrgTypesInList THEN "true"
    ELSE any_org_type(Tail(types))

\* is_org for one candidate object
is_org(obj) ==
    LET obj_type == get(obj, "@type")
    IN IF is_list(obj_type) THEN any_org_type(obj_type[2])
       ELSE IF is_str(obj_type) /\ lower(obj_type[2]) \in OrgTypes THEN "true"
       ELSE "false"

\* the candidates of one parsed block
candidates(data) ==
    IF is_dict(data) THEN <<data>>
    ELSE IF is_list(data) THEN SelectSeq(data[2], is_dict)
    ELSE <<>>

RECURSIVE first_org(_)
\* the loop over the candidates of one block: the first organisation, None, or a raise
first_org(cands) ==
    IF Len(cands) = 0 THEN [raised |-> FALSE, value |-> None]
    ELSE LET verdict == is_org(Head(cands))
         IN IF verdict = "raise" THEN [raised |-> TRUE, value |-> None]
            ELSE IF verdict = "true" THEN [raised |-> FALSE, value |-> Head(cands)]
            ELSE first_org(Tail(cands))

RECURSIVE scan_ld_scripts(_)
scan_ld_scripts(scripts) ==
    IF Len(scripts) = 0 THEN [raised |-> FALSE, value |-> None]
    ELSE LET script == Head(scripts)
         IN IF script.raw = "" \/ loads(script) = JSONDecodeError
            THEN scan_ld_scripts(Tail(scripts))
            ELSE LET found == first_org(candidates(loads(script)))
                 IN IF found.raised \/ ~is_none(found.value) THEN found
                    ELSE scan_ld_scripts(Tail(scripts))

\* DealroomExtractor._extract_ld_organization
_extract_ld_organization(soup) == scan_ld_scripts(ld_scripts(soup))

-----------------------------------------------------------------------------
(* JSON-LD populator.                                                      *)

RECURSIVE first_http(_)
\* the first str entry starting with "http", or None
first_http(seq) ==
    IF Len(seq) = 0 THEN None
    ELSE IF is_str(Head(seq)) /\ startswith(Head(seq)[2], "http") THEN Head(seq)
    ELSE first_http(Tail(seq))

\* the website taken from the object: url, else sameAs
ld_website(ld) ==
    LET url == py_or(py_or(get(ld, "url"), get(ld, "sameAs")), None)
        picked == IF is_list(url) /\ ~is_none(first_http(url[2])) THEN first_http(url[2]) ELSE url
    IN picked

\* the industry field flattened to a list of str
ld_industries(ld) ==
    LET industry == get(ld, "industry")
    IN IF is_list(industry) THEN [i \in 1..Len(industry[2]) |-> py_str(industry[2][i])]
       ELSE IF is_str(industry) THEN <<industry[2]>>
       ELSE <<>>

\* ld.get("employee", {})
ld_employee(ld) == IF has_key(ld, "employee") THEN item(ld, "employee") ELSE Dict(<<>>)

\* ld.get("employee", {}).get("count") raises unless employee is a dict
employees_raises(ld) == ~truthy(get(ld, "numberOfEmployees")) /\ ~is_dict(ld_employee(ld))

ld_employees(ld) == py_or(get(ld, "numberOfEmployees"), get(ld_employee(ld), "count"))

\* str(int(employees)); True is 1
str_int(v) == IF v[1] = "bool" THEN (IF v[2] THEN "1" ELSE "0") ELSE ToString(v[2])

\* the links fed to the classifier, each through str()
ld_links(ld) ==
    LET same_as == get(ld, "sameAs")
    IN IF is_list(same_as) THEN [i \in 1..Len(same_as[2]) |-> py_str(same_as[2][i])]
       ELSE IF is_str(same_as) THEN <<same_as[2]>>
       ELSE <<>>

\* DealroomExtractor._populate_from_ld_json up to the employees lookup
populate_before_employees(ld, rec) ==
    LET website == ld_website(ld)
        industries == ld_industries(ld)
    IN [rec EXCEPT
          !.about = py_or(get(ld, "description"), rec.about),
          !.website_url = IF is_str(website) THEN website ELSE @,
          !.industries =
              IF Len(industries) > 0
              THEN LET merged == range([i \in 1..Len(@[2]) |-> @[2][i][2]]) \cup range(industries)
                       ordered == sorted_set(merged)
                   IN List([i \in 1..Len(ordered) |-> Str(ordered[i])])
              ELSE @]

\* DealroomExtractor._populate_from_ld_json, before the sameAs loop
populate_fields_from_ld_json(ld, rec) ==
    LET employees == ld_employees(ld)
    IN [populate_before_employees(ld, rec) EXCEPT
          !.employees = IF is_number(employees) THEN Str(str_int(employees))
                        ELSE IF is_str(employees) THEN employees
                        ELSE @]

-----------------------------------------------------------------------------
(* Social-link classifier.                                                 *)

\* the platform an href is classified as, or "" for none
platform(href) ==
    LET href_lower == lower(href)
    IN IF contains(href_lower, "linkedin.com") THEN "linkedin"
       ELSE IF contains(href_lower, "twitter.com") \/ contains(href_lower, "x.com") THEN "twitter"
       ELSE IF contains(href_lower, "instagram.com") THEN "instagram"
       ELSE IF contains(href_lower, "facebook.com") THEN "facebook"
       ELSE IF contains(href_lower, "youtube.com") \/ contains(href_lower, "youtu.be") THEN "youtube"
       ELSE ""

\* the write to the singular field of the first three platforms
assign_singular(rec, key, href) ==
    [rec EXCEPT !.linkedin_url = IF key = "linkedin" THEN Str(href) ELSE @,
                !.twitter_url = IF key = "twitter" THEN Str(href) ELSE @,
                !.instagram_url = IF key = "instagram" THEN Str(href) ELSE @]

\* the write to social_links, were it a plain assignment
assign_social_links_overwrite(rec, key, href) ==
    [rec EXCEPT !.social_links =
        IF has_key(@, key)
        THEN Dict([i \in 1..Len(@[2]) |-> IF @[2][i][1] = key THEN <<key, Str(href)>> ELSE @[2][i]])
        ELSE Dict(Append(@[2], <<key, Str(href)>>))]

\* the write to social_links
assign_social_links(rec, key, href) ==
    [rec EXCEPT !.social_links = setdefault(@, key, Str(href))]

\* DealroomExtractor._assign_social_link
_assign_social_link(href, rec) ==
    LET key == platform(href)
    IN IF key = "" THEN rec
       ELSE assign_social_links(assign_singular(rec, key, href), key, href)

-----------------------------------------------------------------------------
(* Meta-tag fallbacks.                                                     *)

\* the tag the description fallback reads: name=description, else og:description
description_tag(soup) ==
    IF soup.meta_description # NoTag THEN soup.meta_description ELSE soup.og_description

\* the description fallback of DealroomExtractor._populate_meta_fallbacks
about_fallback(soup, rec) ==
    LET meta_desc == description_tag(soup)
    IN IF ~truthy(rec.about) /\ meta_desc # NoTag /\ truthy(attr(meta_desc))
       THEN [rec EXCEPT !.about = Str(strip(attr(meta_desc)[2]))]
       ELSE rec

\* the website fallback of DealroomExtractor._populate_meta_fallbacks
website_fallback(soup, rec) ==
    IF truthy(rec.website_url) THEN rec
    ELSE IF soup.canonical # NoTag /\ truthy(attr(soup.canonical))
    THEN [rec EXCEPT !.website_url = attr(soup.canonical)]
    ELSE IF soup.og_url # NoTag /\ truthy(attr(soup.og_url))
    THEN [rec EXCEPT !.website_url = attr(soup.og_url)]
    ELSE rec

\* DealroomExtractor._populate_meta_fallbacks
_populate_meta_fallbacks(soup, rec) == website_fallback(soup, about_fallback(soup, rec))

-----------------------------------------------------------------------------
(* Status and stage.                                                       *)

\* status_of, were acquired tested before closed
status_of_acquired_first(text) ==
    IF contains(text, "acquired") THEN "acquired"
    ELSE IF contains(text, "closed") \/ contains(text, "defunct") THEN "closed"
    ELSE IF contains(text, "ipo") THEN "public"
    ELSE "operational"

\* the status the keywords of the text decide
status_of(text) ==
    IF contains(text, "closed") \/ contains(text, "defunct") THEN "closed"
    ELSE IF contains(text, "acquired") THEN "acquired"
    ELSE IF contains(text, "ipo") THEN "public"
    ELSE "operational"

stage_keywords ==
    << <<"seed", "seed">>,
       <<"series a", "early growth">>,
       <<"series b", "growth">>,
       <<"series c", "late growth">>,
       <<"series d", "late growth">>,
       <<"pre-seed", "pre-seed">>,
       <<"early stage", "early growth">>,
       <<"late stage", "late growth">>,
       <<"scaleup", "scaleup">> >>

RECURSIVE first_stage(_, _)
\* the loop over the pairs: the label of the first pair whose key is in the text
first_stage(pairs, text) ==
    IF Len(pairs) = 0 THEN None
    ELSE IF contains(text, Head(pairs)[1]) THEN Str(Head(pairs)[2])
    ELSE first_stage(Tail(pairs), text)

\* the stage the keywords of the text decide, None for none
stage_of(text) == first_stage(stage_keywords, text)

\* DealroomExtractor._populate_status_and_stage
_populate_status_and_stage(soup, rec) ==
    LET text == lower(soup.text)
    IN [rec EXCEPT
          !.company_status = IF is_none(@) THEN Str(status_of(text)) ELSE @,
          !.growth_stage = IF is_none(@) THEN stage_of(text) ELSE @]

-----------------------------------------------------------------------------
(* Funding and investor harvester.                                         *)

\* the normalised funding round
clean_round(fr) ==
    Dict(<< <<"year", py_or(py_or(get(fr, "year"), get(fr, "date")), get(fr, "round_year"))>>,
            <<"round", py_or(get(fr, "round"), get(fr, "type"))>>,
            <<"amount", py_or(get(fr, "amount"), get(fr, "raised"))>>,
            <<"currency", py_or(get(fr, "currency"), get(fr, "currency_code"))>>,
            <<"investors", py_or(get(fr, "investors"), List(<<>>))>> >>)

\* the normalised investor
clean_investor(inv) ==
    Dict(<< <<"name", get(inv, "name")>>,
            <<"type", get(inv, "type")>>,
            <<"path", py_or(get(inv, "path"), get(inv, "slug"))>> >>)

\* the dict entries of node[key] when node has the key and it is a list
dict_entries(node, key) ==
    IF has_key(node, key) /\ is_list(item(node, key))
    THEN SelectSeq(item(node, key)[2], is_dict)
    ELSE <<>>

\* the funding rounds a dict node yields
node_rounds(node) ==
    LET entries == dict_entries(node, "funding_rounds")
    IN [i \in 1..Len(entries) |-> clean_round(entries[i])]

\* the investors a dict node yields
node_investors(node) ==
    LET entries == dict_entries(node, "investors")
    IN [i \in 1..Len(entries) |-> clean_investor(entries[i])]

RECURSIVE visited(_)
RECURSIVE visited_each(_)
\* the nodes the recursive walk of a parsed value calls itself on, in call
\* order: the node, then what its values (a dict) or its items (a list) yield
visited(node) ==
    <<node>> \o (IF is_dict(node) THEN visited_each(values(node))
                ELSE IF is_list(node) THEN visited_each(node[2])
                ELSE <<>>)
visited_each(nodes) ==
    IF Len(nodes) = 0 THEN <<>>
    ELSE visited(Head(nodes)) \o visited_each(Tail(nodes))

RECURSIVE concat(_)
\* the appends of a sequence of calls, one after the other
concat(seqs) ==
    IF Len(seqs) = 0 THEN <<>>
    ELSE IF Len(seqs) = 1 THEN seqs[1]
    ELSE concat(SubSeq(seqs, 1, Len(seqs) \div 2))
         \o concat(SubSeq(seqs, Len(seqs) \div 2 + 1, Len(seqs)))

\* DealroomExtractor._walk_for_funding_and_investors: every dict the walk is
\* called on appends its rounds and its investors before the walk descends
_walk_for_funding_and_investors(node, rec) ==
    LET dicts == SelectSeq(visited(node), is_dict)
    IN [rec EXCEPT
          !.funding_rounds = List(@[2] \o concat([i \in 1..Len(dicts) |-> node_rounds(dicts[i])])),
          !.investors = List(@[2] \o concat([i \in 1..Len(dicts) |-> node_investors(dicts[i])]))]

\* the prefilter on the raw text of a script
mentions_funding(raw) == contains(raw, "funding") \/ contains(raw, "investor")

RECURSIVE scan_funding_scripts(_, _)
\* the loop over all scripts of DealroomExtractor._populate_funding_and_investors
scan_funding_scripts(scripts, rec) ==
    IF Len(scripts) = 0 THEN rec
    ELSE LET script == Head(scripts)
         IN IF script.raw = "" \/ ~mentions_funding(script.raw) \/ loads(script) = JSONDecodeError
            THEN scan_funding_scripts(Tail(scripts), rec)
            ELSE scan_funding_scripts(Tail(scripts),
                                      _walk_for_funding_and_investors(loads(script), rec))

\* the dedup key of a funding round
round_key(fr) == <<get(fr, "year"), get(fr, "round"), get(fr, "amount"), get(fr, "currency")>>

\* equality of two keys as the set of seen keys decides it
key_eq(a, b) == \A i \in 1..Len(a) : py_eq(a[i], b[i])

RECURSIVE unique_from(_, _, _, _)
\* the entries kept by a seen-set loop, keys[i] the key of entries[i]: an entry
\* that is skipped or whose key was met before is dropped, the others are kept
\* in order
unique_from(entries, keys, skipped, seen) ==
    IF Len(entries) = 0 THEN <<>>
    ELSE IF Head(skipped) \/ \E k \in seen : key_eq(k, Head(keys))
    THEN unique_from(Tail(entries), Tail(keys), Tail(skipped), seen)
    ELSE <<Head(entries)>>
         \o unique_from(Tail(entries), Tail(keys), Tail(skipped), seen \cup {Head(keys)})

\* a loop that skips no entry
none_skipped(entries) == [i \in 1..Len(entries) |-> FALSE]

\* unique_rounds, were the currency left out of the key
unique_rounds_without_currency(rounds) ==
    unique_from(rounds,
                [i \in 1..Len(rounds) |-> SubSeq(round_key(rounds[i]), 1, 3)],
                none_skipped(rounds), {})

\* the funding-round dedup loop; hashing a key that holds a list or a dict raises
unique_rounds(rounds) ==
    unique_from(rounds, [i \in 1..Len(rounds) |-> round_key(rounds[i])], none_skipped(rounds), {})

rounds_raise(rounds) ==
    \E i \in 1..Len(rounds) : \E j \in 1..4 : unhashable(round_key(rounds[i])[j])

investor_key(inv) == <<get(inv, "name")>>

nameless(inv) == ~truthy(get(inv, "name"))

\* unique_investors, were the entries without a name not skipped
unique_investors_keep_nameless(investors) ==
    unique_from(investors,
                [i \in 1..Len(investors) |-> investor_key(investors[i])],
                none_skipped(investors), {})

\* the investor dedup loop; a truthy name that is a list or a dict raises
unique_investors(investors) ==
    unique_from(investors,
                [i \in 1..Len(investors) |-> investor_key(investors[i])],
                [i \in 1..Len(investors) |-> nameless(investors[i])], {})

investors_raise(investors) ==
    \E i \in 1..Len(investors) :
        truthy(get(investors[i], "name")) /\ unhashable(get(investors[i], "name"))

-----------------------------------------------------------------------------
(* Location harvester.                                                     *)

\* the location a dict node yields, as a sequence of zero or one entry
node_location(node) ==
    LET addr == get(node, "address")
        address == py_or(py_or(get(addr, "streetAddress"), get(addr, "address")), get(addr, "full"))
        country == py_or(get(addr, "addressCountry"), get(addr, "country"))
    IN IF is_dict(addr) /\ (truthy(address) \/ truthy(country))
       THEN <<Dict(<< <<"address", address>>, <<"country", country>> >>)>>
       ELSE <<>>

\* DealroomExtractor._walk_for_locations: every dict the walk is called on
\* appends its location before the walk descends
_walk_for_locations(node, rec) ==
    LET dicts == SelectSeq(visited(node), is_dict)
    IN [rec EXCEPT
          !.hq_locations = List(@[2] \o concat([i \in 1..Len(dicts) |-> node_location(dicts[i])]))]

RECURSIVE scan_location_scripts(_, _)
\* the loop over all scripts of DealroomExtractor._populate_locations
scan_location_scripts(scripts, rec) ==
    IF Len(scripts) = 0 THEN rec
    ELSE LET script == Head(scripts)
         IN IF script.raw = "" \/ ~contains(script.raw, "address") \/ loads(script) = JSONDecodeError
            THEN scan_location_scripts(Tail(scripts), rec)
            ELSE scan_location_scripts(Tail(scripts), _walk_for_locations(loads(script), rec))

location_key(loc) == <<get(loc, "address"), get(loc, "country")>>

unique_locations(locations) ==
    unique_from(locations, [i \in 1..Len(locations) |-> location_key(locations[i])],
                none_skipped(locations), {})

locations_raise(locations) ==
    \E i \in 1..Len(locations) : \E j \in 1..2 : unhashable(location_key(locations[i])[j])

-----------------------------------------------------------------------------
(* The pipeline of DealroomExtractor.extract_company_data.                 *)
(*                                                                         *)
(* pc is the pass about to run; "raised" is an exception leaving           *)
(* extract_company_data, "done" is its return.  pending holds the hrefs    *)
(* the running classifier loop has still to feed to _assign_social_link.   *)

NoResult == <<"noresult">>

\* soup = BeautifulSoup(html); record = CompanyRecord(raw_source_url=source_url)
Start(documents, urls) ==
    /\ html \in documents
    /\ source_url \in urls
    /\ pc = "locate"
    /\ ld_org = None
    /\ pending = <<>>
    /\ record = CompanyRecord(Str(source_url))
    /\ result = NoResult

\* ld_org = self._extract_ld_organization(soup); if ld_org: ...
ExtractLdOrganization ==
    /\ pc = "locate"
    /\ LET found == _extract_ld_organization(html)
       IN /\ ld_org' = found.value
          /\ pc' = IF found.raised THEN "raised"
                   ELSE IF truthy(found.value) THEN "ld_json"
                   ELSE "social_links"
          /\ pending' = IF ~found.raised /\ ~truthy(found.value) THEN html.anchors ELSE <<>>
    /\ UNCHANGED <<html, source_url, record, result>>
    /\ UNCHANGED driver_vars

\* self._populate_from_ld_json(ld_org, record), up to its sameAs loop
PopulateFromLdJson ==
    /\ pc = "ld_json"
    /\ IF employees_raises(ld_org)
       THEN /\ record' = populate_before_employees(ld_org, record)
            /\ pc' = "raised"
            /\ pending' = <<>>
       ELSE /\ record' = populate_fields_from_ld_json(ld_org, record)
            /\ pc' = "ld_links"
            /\ pending' = ld_links(ld_org)
    /\ UNCHANGED <<html, source_url, ld_org, result>>
    /\ UNCHANGED driver_vars

\* one pass of: for link in links: self._assign_social_link(str(link), record)
AssignLdLink ==
    /\ pc = "ld_links"
    /\ pending # <<>>
    /\ record' = _assign_social_link(Head(pending), record)
    /\ pending' = Tail(pending)
    /\ UNCHANGED <<html, source_url, pc, ld_org, result>>
    /\ UNCHANGED driver_vars

\* the sameAs loop ends; self._populate_social_links(soup, record) begins
EndLdLinks ==
    /\ pc = "ld_links"
    /\ pending = <<>>
    /\ pc' = "social_links"
    /\ pending' = html.anchors
    /\ UNCHANGED <<html, source_url, ld_org, record, result>>
    /\ UNCHANGED driver_vars

\* one pass of: for a in soup.find_all("a", href=True): self._assign_social_link(...)
PopulateSocialLink ==
    /\ pc = "social_links"
    /\ pending # <<>>
    /\ record' = _assign_social_link(Head(pending), record)
    /\ pending' = Tail(pending)
    /\ UNCHANGED <<html, source_url, pc, ld_org, result>>
    /\ UNCHANGED driver_vars

\* the anchor loop ends
EndSocialLinks ==
    /\ pc = "social_links"
    /\ pending = <<>>
    /\ pc' = "meta_fallbacks"
    /\ UNCHANGED <<html, source_url, ld_org, pending, record, result>>
    /\ UNCHANGED driver_vars

\* self._populate_meta_fallbacks(soup, record)
PopulateMetaFallbacks ==
    /\ pc = "meta_fallbacks"
    /\ record' = _populate_meta_fallbacks(html, record)
    /\ pc' = "status_and_stage"
    /\ UNCHANGED <<html, source_url, ld_org, pending, result>>
    /\ UNCHANGED driver_vars

\* self._populate_status_and_stage(soup, record)
PopulateStatusAndStage ==
    /\ pc = "status_and_stage"
    /\ record' = _populate_status_and_stage(html, record)
    /\ pc' = "funding_and_investors"
    /\ UNCHANGED <<html, source_url, ld_org, pending, result>>
    /\ UNCHANGED driver_vars

\* self._populate_funding_and_investors(soup, record)
PopulateFundingAndInvestors ==
    /\ pc = "funding_and_investors"
    /\ LET scanned == scan_funding_scripts(html.scripts, record)
           rounds == scanned.funding_rounds[2]
           investors == scanned.investors[2]
       IN IF rounds_raise(rounds)
          THEN /\ record' = scanned
               /\ pc' = "raised"
          ELSE IF investors_raise(investors)
          THEN /\ record' = [scanned EXCEPT !.funding_rounds = List(unique_rounds(rounds))]
               /\ pc' = "raised"
          ELSE /\ record' = [scanned EXCEPT
                               !.funding_rounds = List(unique_rounds(rounds)),
                               !.investors = List(unique_investors(investors))]
               /\ pc' = "locations"
    /\ UNCHANGED <<html, source_url, ld_org, pending, result>>
    /\ UNCHANGED driver_vars

\* self._populate_locations(soup, record)
PopulateLocations ==
    /\ pc = "locations"
    /\ LET scanned == scan_location_scripts(html.scripts, record)
           locations == scanned.hq_locations[2]
       IN IF locations_raise(locations)
          THEN /\ record' = scanned
               /\ pc' = "raised"
          ELSE /\ record' = [scanned EXCEPT !.hq_locations = List(unique_locations(locations))]
               /\ pc' = "return"
    /\ UNCHANGED <<html, source_url, ld_org, pending, result>>
    /\ UNCHANGED driver_vars

\* return record.to_dict()
Return ==
    /\ pc = "return"
    /\ result' = to_dict(record)
    /\ pc' = "done"
    /\ UNCHANGED <<html, source_url, ld_org, pending, record>>
    /\ UNCHANGED driver_vars

Next ==
    \/ ExtractLdOrganization
    \/ PopulateFromLdJson
    \/ AssignLdLink
    \/ EndLdLinks
    \/ PopulateSocialLink
    \/ EndSocialLinks
    \/ PopulateMetaFallbacks
    \/ PopulateStatusAndStage
    \/ PopulateFundingAndInvestors
    \/ PopulateLocations
    \/ Return

-----------------------------------------------------------------------------
(* The documents the pipeline is run on.                                   *)

seqs_upto(S, n) == UNION {[1..k -> S] : k \in 0..n}

\* sequences of at most n different members of S
distinct_seqs_upto(S, n) ==
    {q \in seqs_upto(S, n) : \A i, j \in 1..Len(q) : i # j => q[i] # q[j]}

document(scripts, anchors, meta_description, og_description, canonical, og_url, text) ==
    [scripts |-> scripts, anchors |-> anchors, meta_description |-> meta_description,
     og_description |-> og_description, canonical |-> canonical, og_url |-> og_url,
     text |-> text]

\* a page with these scripts and nothing else of interest
script_page(scripts) == document(scripts, <<>>, NoTag, NoTag, NoTag, NoTag, "Vibe.co - Dealroom")

organization(fields) == Dict(<< <<"@type", Str("Organization")>> >> \o fields)

ld_script(v) == json_script(LD_JSON, v)

SourceUrls == {"https://app.dealroom.co/companies/vibe_ctv_ott", "https://example.com/empty"}

AnyUrl == "https://app.dealroom.co/companies/vibe_ctv_ott"

\* one value of every JSON kind, empty and non-empty
JsonValues ==
    {Str("x"), Str(""), Num(1), Num(0), Bool(TRUE), None,
     List(<<>>), List(<<Str("x")>>), List(<<Num(1)>>), Dict(<<>>), Dict(<< <<"a", Num(1)>> >>)}

\* pages without any recognisable data
PlainTexts == {"No data Empty page", ""}

PlainScripts ==
    {<<>>,
     <<text_script("", "console.log(1)")>>,
     <<json_script("", Dict(<< <<"props", Dict(<< <<"page", Str("/companies")>> >>)>> >>))>>,
     <<json_script("", Dict(<< <<"note", Str("no funding rounds disclosed")>> >>))>>,
     <<text_script("", "")>>}

PlainAnchors == {<<>>, <<"/about">>, <<"https://example.com/jobs", "/about">>}

PlainDocuments ==
    {document(scripts, anchors, NoTag, NoTag, NoTag, NoTag, text) :
        scripts \in PlainScripts, anchors \in PlainAnchors, text \in PlainTexts}

\* JSON-LD blocks of every shape
Address ==
    Dict(<< <<"@type", Str("PostalAddress")>>,
            <<"streetAddress", Str("Chicago, Illinois")>>,
            <<"addressCountry", Str("United States")>> >>)

LdBlocks ==
    {ld_script(Dict(<< <<"@type", Str("Person")>>, <<"description", Str("A founder")>> >>)),
     ld_script(Dict(<< <<"@type", Str("company")>>, <<"description", Str("A company")>> >>)),
     ld_script(Dict(<< <<"@type", List(<<Str("Thing"), Str("Corporation")>>)>>, <<"url", Str("http://vibe.co")>> >>)),
     ld_script(Dict(<< <<"@type", List(<<Str("Organization"), Num(1)>>)>>, <<"url", Str("http://vibe.co")>> >>)),
     ld_script(Dict(<< <<"@type", List(<<Str("Thing"), None>>)>> >>)),
     ld_script(Dict(<< <<"@type", List(<<Str("Company")>>)>>, <<"url", Str("http://vibe.co")>> >>)),
     ld_script(Dict(<< <<"name", Str("Vibe.co")>> >>)),
     ld_script(List(<<Str("x"), organization(<< <<"url", Str("http://vibe.co")>> >>)>>)),
     ld_script(Str("Organization")),
     ld_script(Num(3)),
     ld_script(None),
     text_script(LD_JSON, "{oops"),
     text_script(LD_JSON, ""),
     ld_script(organization(<< <<"industry", List(<<Str("marketing"), Str("adtech"), Str("marketing")>>)>> >>)),
     ld_script(organization(<< <<"industry", Str("fintech")>> >>)),
     ld_script(organization(<< <<"numberOfEmployees", Str("51-200")>> >>)),
     ld_script(organization(<< <<"numberOfEmployees", Num(120)>> >>)),
     ld_script(organization(<< <<"employee", Dict(<< <<"count", Num(12)>> >>)>> >>)),
     ld_script(organization(<< <<"employee", Str("many")>> >>)),
     ld_script(organization(<< <<"address", Address>> >>)),
     ld_script(organization(<< <<"address", Dict(<< <<"streetAddress", List(<<Str("Chicago")>>)>> >>)>> >>))}

LdFields ==
    {"@type", "description", "url", "sameAs", "industry", "numberOfEmployees", "employee", "address"}

\* an Organization block with one field holding a value of any JSON kind
LdFieldBlocks ==
    {ld_script(IF f = "@type" THEN Dict(<< <<f, v>> >>) ELSE organization(<< <<f, v>> >>)) :
        f \in LdFields, v \in JsonValues}

LdDocuments ==
    {script_page(<<b>>) : b \in LdBlocks \cup LdFieldBlocks}
    \cup {script_page(<<a, b>>) :
            a \in {text_script(LD_JSON, "{oops"), ld_script(Num(3)),
                   ld_script(organization(<< <<"description", Str("First block")>> >>))},
            b \in {ld_script(organization(<< <<"description", Str("Second block")>> >>)),
                   ld_script(Dict(<< <<"@type", List(<<Num(1)>>)>> >>))}}

\* description sources: the structured description against the two meta tags
LdDescriptions == {None, Str("Vibe.co is a digital advertising platform"), Str(""), Num(7), List(<<>>)}

MetaDescriptionTags == {NoTag, tag(None), tag(Str("")), tag(Str("  Meta description  ")), tag(Str("Meta"))}

OgDescriptionTags == {NoTag, tag(None), tag(Str(" OG description"))}

with_description(d) == IF is_none(d) THEN <<>> ELSE << <<"description", d>> >>

DescriptionDocuments ==
    {document(scripts, <<>>, meta, og, NoTag, NoTag, "Vibe.co") :
        scripts \in {<<>>} \cup {<<ld_script(organization(with_description(d)))>> : d \in LdDescriptions},
        meta \in MetaDescriptionTags, og \in OgDescriptionTags}

\* website sources: the structured url and sameAs against canonical and og:url
LdUrls == {None, Str("http://vibe.co"), Str(""), List(<<Num(1), Str("vibe.co"), Str("https://vibe.co/home")>>), List(<<Str("vibe.co")>>)}

LdSameAs ==
    {None, Str("https://www.linkedin.com/company/vibe"), Str("ftp://files.vibe.co"),
     List(<<Str("mailto:hi@vibe.co"), Str("https://twitter.com/vibe_ads")>>),
     List(<<Str("vibe")>>)}

CanonicalTags == {NoTag, tag(None), tag(Str("https://app.dealroom.co/companies/vibe"))}

OgUrlTags == {NoTag, tag(Str("")), tag(Str("https://dealroom.co/vibe"))}

with_field(name, v) == IF is_none(v) THEN <<>> ELSE << <<name, v>> >>

WebsiteDocuments ==
    {document(scripts, <<>>, NoTag, NoTag, canonical, og, "Vibe.co") :
        scripts \in {<<>>} \cup {<<ld_script(organization(with_field("url", u) \o with_field("sameAs", sa)))>> :
                                    u \in LdUrls, sa \in LdSameAs},
        canonical \in CanonicalTags, og \in OgUrlTags}

\* social links: sameAs entries against anchors
SameAsPool ==
    {Str("https://www.linkedin.com/company/vibe-ctv-ott/"),
     Str("https://twitter.com/vibe_ads")}

AnchorPool ==
    {"https://www.LinkedIn.com/company/other",
     "https://x.com/vibe",
     "https://instagram.com/vibe.ads",
     "/about"}

SocialDocuments ==
    {document(scripts, anchors, NoTag, NoTag, NoTag, NoTag, "Vibe.co") :
        scripts \in {<<>>} \cup {<<ld_script(organization(<< <<"sameAs", List(links)>> >>))>> :
                                    links \in seqs_upto(SameAsPool, MaxSameAs)},
        anchors \in seqs_upto(AnchorPool, MaxAnchors)}
    \cup {document(<<ld_script(organization(<< <<"sameAs", sa>> >>))>>, anchors, NoTag, NoTag, NoTag, NoTag, "Vibe.co") :
            sa \in {Str("https://www.facebook.com/vibe"),
                    List(<<Str("https://www.Instagram.com/vibe"), Str("https://youtu.be/abc")>>),
                    List(<<Dict(<< <<"url", Str("https://linkedin.com/in/ceo")>> >>), Num(3)>>)},
            anchors \in {<<>>,
                         <<"https://facebook.com/other", "https://www.youtube.com/c/vibe">>,
                         <<"https://instagram.com/vibe.ads", "https://www.linkedin.com/in/ceo">>}}

\* visible text: phrases in any order
Phrases ==
    {"closed", "now defunct", "Acquired by Acme", "IPO", "pre-seed", "seed round", "Series A",
     "series b", "early stage", "a tripod maker", "acquired before its ipo and closed"}

LateTexts == {"series c", "Series D extension", "late stage scaleup", "a scaleup in series c"}

TextDocuments ==
    {document(<<>>, <<>>, NoTag, NoTag, NoTag, NoTag, text) :
        text \in {join(phrases, " ") : phrases \in distinct_seqs_upto(Phrases, MaxKeywords)}
                 \cup LateTexts}

\* embedded script payloads with funding rounds and investors
Acme == Dict(<< <<"name", Str("Acme")>>, <<"type", Str("vc")>>, <<"slug", Str("acme")>> >>)

Beta == Dict(<< <<"name", Str("Beta")>> >>)

RoundPool ==
    {Dict(<< <<"year", Num(2020)>>, <<"round", Str("Seed")>>, <<"amount", Num(5)>>, <<"currency", Str("USD")>> >>),
     Dict(<< <<"date", Num(2020)>>, <<"type", Str("Seed")>>, <<"raised", Num(5)>>, <<"currency_code", Str("USD")>> >>),
     Dict(<< <<"year", Num(2021)>>, <<"round", Str("Series A")>>, <<"amount", Num(20)>>, <<"currency", Str("EUR")>>,
             <<"investors", List(<<Acme>>)>> >>),
     Dict(<< <<"round_year", Num(2020)>>, <<"round", Str("Seed")>> >>),
     Dict(<< <<"year", Num(2020)>>, <<"round", Str("Seed")>>, <<"amount", Num(5)>>, <<"currency", Str("EUR")>> >>)}

top_level(rounds) == Dict(<< <<"funding_rounds", List(rounds)>> >>)

nested(rounds) ==
    Dict(<< <<"props", Dict(<< <<"company", Dict(<< <<"funding_rounds", List(rounds)>>,
                                                     <<"investors", List(<<Beta, Acme, Beta>>)>> >>)>> >>)>> >>)

listed(rounds) == List(<<Num(1), Dict(<< <<"data", top_level(rounds)>> >>)>>)

FundingPayloads ==
    {shape : shape \in UNION {{top_level(r), nested(r), listed(r)} : r \in seqs_upto(RoundPool, MaxRounds)}}

SecondScripts ==
    {<<>>,
     <<json_script("", nested(<<
          Dict(<< <<"year", Num(2020)>>, <<"round", Str("Seed")>>, <<"amount", Num(5)>>, <<"currency", Str("USD")>> >>) >>))>>,
     <<text_script("", "var funding = {")>>,
     <<json_script("", top_level(<<
          Dict(<< <<"year", Num(2021)>>, <<"round", Str("Series A")>>, <<"amount", Num(20)>>, <<"currency", Str("EUR")>> >>),
          Dict(<< <<"date", Num(2020)>>, <<"type", Str("Seed")>>, <<"raised", Num(5)>>, <<"currency_code", Str("USD")>> >>) >>))>>}

FundingFieldPayloads ==
    {Dict(<< <<f, v>> >>) : f \in {"funding_rounds", "investors"}, v \in JsonValues}
    \cup {top_level(<<Dict(<< <<f, v>>, <<"round", Str("Seed")>> >>)>>) : f \in {"year", "investors"}, v \in JsonValues}
    \cup {Dict(<< <<"investors", List(<<Dict(<< <<"name", v>> >>), Beta>>)>> >>) : v \in JsonValues}

FundingDocuments ==
    {script_page(<<json_script("", payload)>> \o second) : payload \in FundingPayloads, second \in SecondScripts}
    \cup {script_page(<<json_script("", payload)>>) :
            payload \in FundingFieldPayloads \cup {top_level(<<Str("undisclosed"), Acme>>)}}

\* investors met at the top level and inside funding rounds: the same name with
\* different details, entries without a name, entries with an empty name
AcmeAngel == Dict(<< <<"name", Str("Acme")>>, <<"type", Str("angel")>>, <<"path", Str("/investors/acme")>> >>)

InvestorPool ==
    {Acme, AcmeAngel, Beta, Dict(<< <<"type", Str("vc")>> >>), Dict(<< <<"name", Str("")>>, <<"type", Str("vc")>> >>)}

RoundInvestors == {<<>>, <<AcmeAngel>>, <<Beta, Acme>>}

round_with(investors) ==
    Dict(<< <<"round", Str("Seed")>>, <<"year", Num(2020)>>, <<"investors", List(investors)>> >>)

\* the three orders the walk can meet the two lists in
investors_beside_rounds(top, inner) ==
    Dict(<< <<"funding_rounds", List(<<round_with(inner)>>)>>, <<"investors", List(top)>> >>)

investors_before_rounds(top, inner) ==
    Dict(<< <<"data", Dict(<< <<"investors", List(top)>> >>)>>,
            <<"funding_rounds", List(<<round_with(inner)>>)>> >>)

investors_after_rounds(top, inner) ==
    List(<<top_level(<<round_with(inner)>>), Dict(<< <<"investors", List(top)>> >>)>>)

InvestorPayloads ==
    UNION {{investors_beside_rounds(top, inner), investors_before_rounds(top, inner),
            investors_after_rounds(top, inner)} :
              top \in seqs_upto(InvestorPool, MaxInvestors), inner \in RoundInvestors}

InvestorDocuments == {script_page(<<json_script("", payload)>>) : payload \in InvestorPayloads}

Inputs ==
    (PlainDocuments \X SourceUrls)
    \cup ((LdDocuments \cup DescriptionDocuments \cup WebsiteDocuments \cup SocialDocuments
           \cup TextDocuments \cup FundingDocuments \cup InvestorDocuments) \X {AnyUrl})

NoFile == <<"nofile">>
NoSummary == <<"nosummary">>
Running == <<"running">>

\* main() is not running
NoRun ==
    /\ identifiers = <<>>
    /\ max_workers = 0
    /\ max_retries = 0
    /\ main_pc = "none"
    /\ tasks = <<>>
    /\ results = <<>>
    /\ output_file = NoFile
    /\ summary = NoSummary
    /\ exit_status = Running

Init ==
    /\ \E input \in Inputs : Start({input[1]}, {input[2]})
    /\ NoRun

Spec == Init /\ [][Next]_vars

-----------------------------------------------------------------------------
(* extract_company_data as the driver calls it: the passes of the pipeline *)
(* one after the other, on a fresh record.                                 *)

RECURSIVE assign_each(_, _)
\* for href in hrefs: self._assign_social_link(href, record)
assign_each(hrefs, rec) ==
    IF Len(hrefs) = 0 THEN rec
    ELSE assign_each(Tail(hrefs), _assign_social_link(Head(hrefs), rec))

Raises == [raised |-> TRUE, value |-> NoResult]

Returns(value) == [raised |-> FALSE, value |-> value]

\* the passes after the anchors: meta fallbacks, status and stage, funding and
\* investors, locations, to_dict
extract_after_links(soup, rec) ==
    LET funded == scan_funding_scripts(soup.scripts,
                      _populate_status_and_stage(soup, _populate_meta_fallbacks(soup, rec)))
        rounds == funded.funding_rounds[2]
        investors == funded.investors[2]
        deduped == [funded EXCEPT !.funding_rounds = List(unique_rounds(rounds)),
                                  !.investors = List(unique_investors(investors))]
        scanned == scan_location_scripts(soup.scripts, deduped)
        locations == scanned.hq_locations[2]
    IN IF rounds_raise(rounds) \/ investors_raise(investors) \/ locations_raise(locations)
       THEN Raises
       ELSE Returns(to_dict([scanned EXCEPT !.hq_locations = List(unique_locations(locations))]))

\* DealroomExtractor.extract_company_data
extract_company_data(soup, url) ==
    LET fresh == CompanyRecord(Str(url))
        found == _extract_ld_organization(soup)
        ld == found.value
    IN IF found.raised THEN Raises
       ELSE IF ~truthy(ld) THEN extract_after_links(soup, assign_each(soup.anchors, fresh))
       ELSE IF employees_raises(ld) THEN Raises
       ELSE extract_after_links(soup,
                assign_each(soup.anchors,
                    assign_each(ld_links(ld), populate_fields_from_ld_json(ld, fresh))))

-----------------------------------------------------------------------------
(* DealroomCrawler: the profile URL of an identifier and the GET attempts. *)

\* the place of the first c in s, 0 when s has none
find(s, c) ==
    IF \E i \in 1..Len(s) : char(s, i) = c
    THEN CHOOSE i \in 1..Len(s) : char(s, i) = c /\ \A j \in 1..(i - 1) : char(s, j) # c
    ELSE 0

SchemeChars == "abcdefghijklmnopqrstuvwxyzABCDEFGHIJKLMNOPQRSTUVWXYZ0123456789+-."

\* urllib.parse.urlparse(s): the scheme, and whether it raises ValueError
\* ("Invalid IPv6 URL": a network location with one bracket and not the other)
urlparse(s) ==
    LET colon == find(s, ":")
        has_scheme == /\ colon > 1
                      /\ find(LowerCase \o UpperCase, char(s, 1)) > 0
                      /\ \A i \in 1..(colon - 1) : find(SchemeChars, char(s, i)) > 0
        scheme == IF has_scheme THEN lower(SubSeq(s, 1, colon - 1)) ELSE ""
        rest == IF has_scheme THEN SubSeq(s, colon + 1, Len(s)) ELSE s
        after == SubSeq(rest, 3, Len(rest))
        ends == {i \in 1..Len(after) : char(after, i) \in {"/", "?", "#"}}
        netloc == IF ~startswith(rest, "//") THEN ""
                  ELSE IF ends = {} THEN after
                  ELSE SubSeq(after, 1, (CHOOSE i \in ends : \A j \in ends : i <= j) - 1)
    IN [raised |-> (find(netloc, "[") > 0) # (find(netloc, "]") > 0), scheme |-> scheme]

RECURSIVE strip_slashes(_)
\* str.strip("/")
strip_slashes(s) ==
    IF s # "" /\ char(s, 1) = "/" THEN strip_slashes(SubSeq(s, 2, Len(s)))
    ELSE IF s # "" /\ char(s, Len(s)) = "/" THEN strip_slashes(SubSeq(s, 1, Len(s) - 1))
    ELSE s

\* crawler_conf.get("dealroom_base_url", ...)
dealroom_base_url == "https://app.dealroom.co/companies"

\* DealroomCrawler.build_profile_url
build_profile_url(identifier) ==
    IF urlparse(identifier).raised THEN Raises
    ELSE IF urlparse(identifier).scheme \in {"http", "https"} THEN Returns(identifier)
    ELSE IF contains(identifier, ".") /\ ~contains(identifier, " ")
    THEN Returns("https://" \o identifier)
    ELSE Returns(dealroom_base_url \o "/" \o strip_slashes(strip(identifier)))

\* what one session.get answers: an exception, or a response
RequestException == <<"exception">>

Response(status_code, text, url) == <<"response", status_code, text, url>>

\* response.status_code >= 400
is_error(response) == response[2] >= 400

\* what fetch_company_page has come to: still running, raised, or returned
NotFetched == <<"running">>

FetchRaised == <<"raised">>

Fetched(text, url) == <<"returned", text, url>>

\* response.text, parsed as the extractor parses it
Page(soup) == <<"page", soup>>

\* one pass of the retry loop on what session.get answered: an exception or an
\* error status sleeps and goes on, a response below 400 sleeps and returns
attempt(task, answer) ==
    IF answer = RequestException \/ is_error(answer)
    THEN [task EXCEPT !.attempt = @ + 1, !.gets = @ + 1, !.sleeps = @ + 1]
    ELSE [task EXCEPT !.attempt = @ + 1, !.gets = @ + 1, !.sleeps = @ + 1,
                      !.fetched = Fetched(Page(answer[3]), answer[4]),
                      !.pc = "extracting"]

\* the loop is over without a response: return None, url
give_up(task) == [task EXCEPT !.fetched = Fetched(None, task.url)]

-----------------------------------------------------------------------------
(* main(): the tasks of process_single_company, run one after the other or *)
(* by the workers of a ThreadPoolExecutor, and the report.  A task is      *)
(* queued, fetching (inside the retry loop), extracting, finished (its     *)
(* return value is ready) or collected (main has taken its return value).  *)

output_path == "data/output.json"

\* write_json_list(results, output_path): the file holds the records
File(records) == <<"file", records>>

\* a task's return value is not there yet
NoValue == <<"novalue">>

\* a record extract_company_data returned
Record(data) == <<"record", data>>

\* if record: a dict is truthy when it has a key
record_truthy(value) == value # None /\ DOMAIN value[2] # {}

\* results.append(record), were the test "if record" left out
append_always(collected, value) == Append(collected, value)

\* if record: results.append(record)
append_record(collected, value) ==
    IF record_truthy(value) THEN Append(collected, value) ELSE collected

\* the future of one submitted identifier
Task(identifier) ==
    [pc |-> "queued", identifier |-> identifier, url |-> "", attempt |-> 0, gets |-> 0,
     sleeps |-> 0, fetched |-> NotFetched, value |-> NoValue]

\* process_single_company up to the retry loop of fetch_company_page
begin(task) ==
    LET identifier == strip(task.identifier)
        built == build_profile_url(identifier)
    IN IF identifier = ""
       THEN [task EXCEPT !.identifier = identifier, !.value = None, !.pc = "finished"]
       ELSE IF built.raised
       THEN [task EXCEPT !.identifier = identifier, !.fetched = FetchRaised,
                         !.value = None, !.pc = "finished"]
       ELSE [task EXCEPT !.identifier = identifier, !.url = built.value, !.pc = "fetching"]

\* process_single_company after fetch_company_page returned no HTML
no_html(task) == [task EXCEPT !.value = None, !.pc = "finished"]

\* process_single_company from extract_company_data on
extract(task) ==
    LET data == extract_company_data(task.fetched[2][2], task.fetched[3])
    IN [task EXCEPT !.value = IF data.raised THEN None ELSE Record(data.value),
                    !.pc = "finished"]

-----------------------------------------------------------------------------
(* The site the crawler talks to: what the n-th GET of a URL answers.      *)

OkPage == document(<<>>, <<"https://www.linkedin.com/company/vibe">>, NoTag, NoTag, NoTag, NoTag,
                   "Vibe.co - Dealroom")

OrgPage == script_page(<<ld_script(organization(<< <<"description", Str("Acme builds rockets")>> >>))>>)

\* a page extract_company_data raises on
RaisingPage == script_page(<<ld_script(Dict(<< <<"@type", List(<<Str("Thing"), None>>)>> >>))>>)

ErrorPage == document(<<>>, <<>>, NoTag, NoTag, NoTag, NoTag, "Service unavailable")

\* self.session.get(url, timeout=...), the n-th attempt of a fetch of the url
session_get(url, n) ==
    CASE url = "https://vibe.co" -> Response(200, OkPage, "https://www.vibe.co/")
      [] url = "https://app.dealroom.co/companies/acme" ->
            IF n = 1 THEN Response(503, ErrorPage, url) ELSE Response(200, OrgPage, url)
      [] url = "https://app.dealroom.co/companies/beta" ->
            IF n = 1 THEN RequestException
            ELSE IF n = 2 THEN Response(400, ErrorPage, url)
            ELSE Response(200, OkPage, url)
      [] url = "https://gone.io" -> Response(200, RaisingPage, url)
      [] OTHER -> RequestException

\* the lines of the input file, blank lines left out
IdentifierPool ==
    <<"vibe.co", "acme/", "http://[bad", " gone.io ", "https://app.dealroom.co/companies/beta",
      "vibe.co">>

\* the lines at the places I, in the order of the file
lines_at(I) ==
    LET place(k) == CHOOSE i \in I : Cardinality({j \in I : j <= i}) = k
    IN [k \in 1..Cardinality(I) |-> IdentifierPool[place(k)]]

IdentifierLists ==
    {lines_at(I) : I \in {J \in SUBSET (1..Len(IdentifierPool)) : Cardinality(J) <= MaxIdentifiers}}

\* identifiers = read_input_domains(input_path); if not identifiers: sys.exit(1);
\* else every identifier is submitted (or waits for its turn of the loop)
ReadIdentifiers ==
    /\ main_pc = "read"
    /\ IF Len(identifiers) = 0
       THEN /\ exit_status' = 1
            /\ main_pc' = "exited"
            /\ tasks' = tasks
       ELSE /\ exit_status' = exit_status
            /\ main_pc' = IF max_workers = 1 \/ Len(identifiers) = 1 THEN "sequential" ELSE "pool"
            /\ tasks' = [i \in 1..Len(identifiers) |-> Task(identifiers[i])]
    /\ UNCHANGED <<identifiers, max_workers, max_retries, results, output_file, summary>>
    /\ UNCHANGED extractor_vars

\* the tasks in the hands of a worker
busy == {i \in 1..Len(tasks) : tasks[i].pc \in {"fetching", "extracting"}}

\* task i may start: in the loop when the tasks before it were collected, in
\* the pool when it heads the work queue and a worker is free
may_begin(i) ==
    IF main_pc = "sequential" THEN \A j \in 1..(i - 1) : tasks[j].pc = "collected"
    ELSE /\ main_pc = "pool"
         /\ \A j \in 1..(i - 1) : tasks[j].pc # "queued"
         /\ Cardinality(busy) < max_workers

\* process_single_company(identifier, crawler, extractor) starts
BeginTask ==
    \E i \in 1..Len(tasks) :
        /\ tasks[i].pc = "queued"
        /\ may_begin(i)
        /\ tasks' = [tasks EXCEPT ![i] = begin(@)]
        /\ UNCHANGED <<identifiers, max_workers, max_retries, main_pc, results,
                       output_file, summary, exit_status>>
        /\ UNCHANGED extractor_vars

\* one pass of the retry loop: session.get, the delay, return or go on
Attempt ==
    \E i \in 1..Len(tasks) :
        /\ tasks[i].pc = "fetching"
        /\ tasks[i].attempt < max_retries
        /\ tasks' = [tasks EXCEPT ![i] = attempt(@, session_get(@.url, @.attempt + 1))]
        /\ UNCHANGED <<identifiers, max_workers, max_retries, main_pc, results,
                       output_file, summary, exit_status>>
        /\ UNCHANGED extractor_vars

\* the retry loop ends without a response: return None, url; the task logs
\* "No HTML fetched" and returns None
GiveUp ==
    \E i \in 1..Len(tasks) :
        /\ tasks[i].pc = "fetching"
        /\ tasks[i].attempt >= max_retries
        /\ tasks' = [tasks EXCEPT ![i] = no_html(give_up(@))]
        /\ UNCHANGED <<identifiers, max_workers, max_retries, main_pc, results,
                       output_file, summary, exit_status>>
        /\ UNCHANGED extractor_vars

\* data = extractor.extract_company_data(html, source_url=url); return data,
\* or the except clause returns None
Extract ==
    \E i \in 1..Len(tasks) :
        /\ tasks[i].pc = "extracting"
        /\ tasks' = [tasks EXCEPT ![i] = extract(@)]
        /\ UNCHANGED <<identifiers, max_workers, max_retries, main_pc, results,
                       output_file, summary, exit_status>>
        /\ UNCHANGED extractor_vars

\* main takes the return value of a finished task: if record: results.append(record)
Collect ==
    \E i \in 1..Len(tasks) :
        /\ main_pc \in {"sequential", "pool"}
        /\ tasks[i].pc = "finished"
        /\ results' = append_record(results, tasks[i].value)
        /\ tasks' = [tasks EXCEPT ![i].pc = "collected"]
        /\ UNCHANGED <<identifiers, max_workers, max_retries, main_pc,
                       output_file, summary, exit_status>>
        /\ UNCHANGED extractor_vars

\* after the loop or the executor: warn or write, print the summary, return
Report ==
    /\ main_pc \in {"sequential", "pool"}
    /\ \A i \in 1..Len(tasks) : tasks[i].pc = "collected"
    /\ output_file' = IF Len(results) = 0 THEN output_file ELSE File(results)
    /\ summary' = [records |-> Len(results), output |-> output_path]
    /\ exit_status' = 0
    /\ main_pc' = "exited"
    /\ UNCHANGED <<identifiers, max_workers, max_retries, tasks, results>>
    /\ UNCHANGED extractor_vars

DriverNext ==
    \/ ReadIdentifiers
    \/ BeginTask
    \/ Attempt
    \/ GiveUp
    \/ Extract
    \/ Collect
    \/ Report

\* no extraction of its own is running beside main()
NoExtraction ==
    /\ html = ErrorPage
    /\ source_url = ""
    /\ pc = "none"
    /\ ld_org = None
    /\ pending = <<>>
    /\ record = CompanyRecord(None)
    /\ result = NoResult

DriverInit ==
    /\ identifiers \in IdentifierLists
    /\ max_workers \in 1..MaxWorkers
    /\ max_retries \in 0..MaxRetries
    /\ main_pc = "read"
    /\ tasks = <<>>
    /\ results = <<>>
    /\ output_file = NoFile
    /\ summary = NoSummary
    /\ exit_status = Running
    /\ NoExtraction

DriverSpec == DriverInit /\ [][DriverNext]_vars

-----------------------------------------------------------------------------
(* Properties.                                                             *)

Returned == pc = "done"

\* the value of a key of the returned mapping, None when the key is absent
returned(key) == IF key \in DOMAIN result THEN result[key] ELSE None

\* the structured object the populator ran on, None when there was none
located == IF truthy(ld_org) THEN ld_org ELSE None

\* a tag that is present and has content
has_content(t) == t # NoTag /\ truthy(attr(t))

\* C1: extract_company_data never raises, whatever the HTML and whatever JSON
\* value sits in a field of a structured-metadata block or a script payload.
C1_NeverRaises == pc # "raised"

StatusKeywords == {"closed", "defunct", "acquired", "ipo"}

StageKeywords ==
    {"pre-seed", "seed", "series a", "early stage", "series b", "series c", "series d",
     "late stage", "scaleup"}

RECURSIVE mentions_key(_, _)
\* whether a parsed payload holds one of the keys at any depth
mentions_key(node, keys) ==
    IF is_dict(node)
    THEN \E i \in 1..Len(node[2]) : node[2][i][1] \in keys \/ mentions_key(node[2][i][2], keys)
    ELSE IF is_list(node) THEN \E i \in 1..Len(node[2]) : mentions_key(node[2][i], keys)
    ELSE FALSE

NoRecognizableData(soup) ==
    /\ ld_scripts(soup) = <<>>
    /\ soup.meta_description = NoTag /\ soup.og_description = NoTag
    /\ soup.canonical = NoTag /\ soup.og_url = NoTag
    /\ \A i \in 1..Len(soup.anchors) : platform(soup.anchors[i]) = ""
    /\ LET text == lower(soup.text)
       IN \A k \in StatusKeywords \cup StageKeywords : ~contains(text, k)
    /\ \A i \in 1..Len(soup.scripts) :
          \/ loads(soup.scripts[i]) = JSONDecodeError
          \/ ~mentions_key(loads(soup.scripts[i]), {"funding_rounds", "investors", "address"})

\* C2: for a page without any recognisable data the call does not raise and the
\* returned record has exactly the keys company_status and raw_source_url, with
\* company_status = "operational" and raw_source_url = the url passed in.
C2_MinimalRecord ==
    /\ pc = "raised" => ~NoRecognizableData(html)
    /\ (Returned /\ NoRecognizableData(html)) =>
          /\ DOMAIN result = {"company_status", "raw_source_url"}
          /\ result["company_status"] = Str("operational")
          /\ result["raw_source_url"] = Str(source_url)

C2_Witness ==
    /\ Returned
    /\ NoRecognizableData(html)
    /\ html.anchors # <<>>
    /\ \E i \in 1..Len(html.scripts) : loads(html.scripts[i]) # JSONDecodeError

Statuses == {Str("operational"), Str("closed"), Str("acquired"), Str("public")}

\* C3: the returned record has no key whose value is null, no key whose value is
\* an empty list or mapping, and always the key company_status with one of the
\* four statuses.
C3_NoNullNoEmpty ==
    Returned =>
        /\ \A key \in DOMAIN result :
              /\ ~is_none(result[key])
              /\ (is_list(result[key]) \/ is_dict(result[key])) => Len(result[key][2]) > 0
        /\ "company_status" \in DOMAIN result
        /\ result["company_status"] \in Statuses

C3_Witness ==
    /\ Returned
    /\ {"social_links", "about"} \cap DOMAIN result # {}
    /\ \E key \in FieldNames \ DOMAIN result : is_none(record[key])
    /\ \E key \in FieldNames \ DOMAIN result : ~is_none(record[key])

Platforms == {"linkedin", "twitter", "instagram", "facebook", "youtube"}

\* every href the classifier is called with, in pass order then document order
classified_hrefs == (IF truthy(ld_org) THEN ld_links(ld_org) ELSE <<>>) \o html.anchors

\* the first href classified as platform p, None when there is none
first_classified(p) ==
    LET hits == SelectSeq(classified_hrefs, LAMBDA h : platform(h) = p)
    IN IF hits = <<>> THEN None ELSE Str(Head(hits))

ClassifierCall == pc \in {"ld_links", "social_links"} /\ pending # <<>>

\* C4: social_links is set-once per platform: a key that has a URL keeps it in
\* every later step, a classifier call on an href of no platform changes nothing,
\* and the final value of each platform is the first URL classified for it, the
\* sameAs entries first and the anchors after them.
C4_SocialLinksSetOnce ==
    /\ [][\A p \in Platforms :
            has_key(record.social_links, p) =>
                get(record'.social_links, p) = get(record.social_links, p)]_vars
    /\ [][(ClassifierCall /\ platform(Head(pending)) = "") => record' = record]_vars
    /\ [](Returned =>
            /\ \A p \in Platforms : get(record.social_links, p) = first_classified(p)
            /\ \A i \in 1..Len(record.social_links[2]) : record.social_links[2][i][1] \in Platforms)

C4_Witness ==
    /\ Returned
    /\ truthy(ld_org)
    /\ \E i \in 1..Len(ld_links(ld_org)), j \in 1..Len(html.anchors) :
          /\ platform(ld_links(ld_org)[i]) # ""
          /\ platform(ld_links(ld_org)[i]) = platform(html.anchors[j])
          /\ ld_links(ld_org)[i] # html.anchors[j]
    /\ \E j \in 1..Len(html.anchors) : platform(html.anchors[j]) = ""

\* C5: in the returned record linkedin_url, twitter_url and instagram_url equal
\* the linkedin, twitter and instagram entries of social_links.
C5_SingularMirrorsSocialLinks ==
    Returned =>
        \A p \in {"linkedin", "twitter", "instagram"} :
            returned(p \o "_url") =
                (IF "social_links" \in DOMAIN result THEN get(result["social_links"], p) ELSE None)

\* the trimmed content of a meta tag
trimmed(t) == Str(strip(attr(t)[2]))

\* C6: the final about is the first, in the order structured-metadata
\* description, name=description meta content, og:description meta content, of
\* the sources that is present with content (meta content trimmed).
C6_AboutFirstPresentSource ==
    Returned =>
        record.about =
            (IF ~is_none(located) /\ truthy(get(located, "description")) THEN get(located, "description")
             ELSE IF has_content(html.meta_description) THEN trimmed(html.meta_description)
             ELSE IF has_content(html.og_description) THEN trimmed(html.og_description)
             ELSE None)

\* what the structured-metadata pass stores as website_url, None for nothing
structured_website ==
    IF ~is_none(located) /\ is_str(ld_website(located)) THEN ld_website(located) ELSE None

\* the structured website comes from sameAs when the url field yields nothing
from_same_as == ~is_none(structured_website) /\ ~truthy(get(located, "url"))

\* C7: the final website_url is the first of structured-metadata URL, canonical
\* link href, og:url content that yields a value, and a value taken from the
\* structured object's sameAs field is a string starting with "http".
C7_WebsitePriority ==
    Returned =>
        /\ record.website_url =
              (IF ~is_none(structured_website) THEN structured_website
               ELSE IF has_content(html.canonical) THEN attr(html.canonical)
               ELSE IF has_content(html.og_url) THEN attr(html.og_url)
               ELSE None)
        /\ from_same_as => startswith(record.website_url[2], "http")

claimed_stage_keywords ==
    << <<"pre-seed", "pre-seed">>,
       <<"seed", "seed">>,
       <<"series a", "early growth">>,
       <<"early stage", "early growth">>,
       <<"series b", "growth">>,
       <<"series c", "late growth">>,
       <<"series d", "late growth">>,
       <<"late stage", "late growth">>,
       <<"scaleup", "scaleup">> >>

\* C8: growth_stage is the label of the first pair, in the order pre-seed, seed,
\* series a, early stage, series b, series c, series d, late stage, scaleup,
\* whose keyword is in the lower-cased text, and unset when none is.
C8_StageInListedOrder ==
    Returned => record.growth_stage = first_stage(claimed_stage_keywords, lower(html.text))

\* C9: company_status is closed if the lower-cased text contains "closed" or
\* "defunct"; otherwise acquired if it contains "acquired"; otherwise public if
\* it contains "ipo"; otherwise operational.
C9_StatusPriority ==
    Returned =>
        LET text == lower(html.text)
            closed == contains(text, "closed") \/ contains(text, "defunct")
            acquired == contains(text, "acquired")
            ipo == contains(text, "ipo")
        IN /\ closed => returned("company_status") = Str("closed")
           /\ (~closed /\ acquired) => returned("company_status") = Str("acquired")
           /\ (~closed /\ ~acquired /\ ipo) => returned("company_status") = Str("public")
           /\ (~closed /\ ~acquired /\ ~ipo) => returned("company_status") = Str("operational")

C9_Witness ==
    /\ Returned
    /\ \A k \in {"defunct", "acquired", "ipo"} : contains(lower(html.text), k)
    /\ returned("company_status") = Str("closed")

\* the funding harvester has completed
Harvested == pc \in {"locations", "return", "done"}

\* every funding round the traversal of all script blocks emits, in its order
harvested_rounds == scan_funding_scripts(html.scripts, CompanyRecord(Str(source_url))).funding_rounds[2]

same_round(a, b) == key_eq(round_key(a), round_key(b))

\* C10: after the funding harvester ran, funding_rounds holds no two entries
\* with the same (year, round, amount, currency); every harvested tuple appears
\* exactly once, as the entry of its first occurrence, and the entries keep the
\* order of their first occurrences in the traversal.
C10_FundingRoundsUnique ==
    Harvested =>
        LET kept == record.funding_rounds[2]
            harvested == harvested_rounds
            first_at(e) == CHOOSE i \in 1..Len(harvested) :
                              /\ same_round(harvested[i], e)
                              /\ \A j \in 1..(i - 1) : ~same_round(harvested[j], e)
        IN /\ \A i, j \in 1..Len(kept) : i # j => ~same_round(kept[i], kept[j])
           /\ \A i \in 1..Len(harvested) :
                 \E j \in 1..Len(kept) : same_round(kept[j], harvested[i])
           /\ \A j \in 1..Len(kept) :
                 /\ \E i \in 1..Len(harvested) : same_round(harvested[i], kept[j])
                 /\ kept[j] = harvested[first_at(kept[j])]
           /\ \A i, j \in 1..Len(kept) : i < j => first_at(kept[i]) < first_at(kept[j])

\* duplicates met in different script blocks, at different depths, were dropped
C10_Witness ==
    /\ Harvested
    /\ Len(html.scripts) = 2
    /\ Len(record.funding_rounds[2]) = 2
    /\ LET harvested == harvested_rounds
       IN /\ Len(harvested) = 3
          /\ ~same_round(harvested[1], harvested[2])
          /\ \E i \in 1..2 : same_round(harvested[i], harvested[3])
    /\ \A i \in 1..2 : loads(html.scripts[i]) # JSONDecodeError
    /\ has_key(loads(html.scripts[1]), "funding_rounds")
    /\ ~has_key(loads(html.scripts[2]), "funding_rounds")

\* every investor the traversal of all script blocks emits, in its order
harvested_investors == scan_funding_scripts(html.scripts, CompanyRecord(Str(source_url))).investors[2]

named(inv) == truthy(get(inv, "name"))

same_name(a, b) == py_eq(get(a, "name"), get(b, "name"))

\* C11: after the funding/investor harvester ran, investors holds no two
\* entries with the same name and no entry without a name; for each name
\* harvested at any depth (top-level lists and lists inside funding rounds
\* alike) the entry kept is the first one met in traversal order, and the kept
\* entries keep their relative order.
C11_InvestorsUnique ==
    Harvested =>
        LET kept == record.investors[2]
            harvested == harvested_investors
            firsts == {i \in 1..Len(harvested) :
                          /\ named(harvested[i])
                          /\ \A j \in 1..(i - 1) : ~same_name(harvested[j], harvested[i])}
            rank(i) == Cardinality({j \in firsts : j <= i})
        IN /\ \A i \in 1..Len(kept) : named(kept[i])
           /\ \A i, j \in 1..Len(kept) : i # j => ~same_name(kept[i], kept[j])
           /\ Len(kept) = Cardinality(firsts)
           /\ \A i \in firsts : kept[rank(i)] = harvested[i]

\* a name met first in a top-level list and again, with other details, inside
\* a funding round, next to an entry without a name
C11_Witness ==
    /\ Harvested
    /\ Len(record.investors[2]) >= 2
    /\ LET harvested == harvested_investors
       IN /\ \E i \in 1..Len(harvested) : ~named(harvested[i])
          /\ \E i, j \in 1..Len(harvested) :
                /\ i < j
                /\ same_name(harvested[i], harvested[j])
                /\ harvested[i] # harvested[j]
                /\ harvested[i] \in range(record.investors[2])
                /\ harvested[j] \notin range(record.investors[2])
    /\ \E i \in 1..Len(html.scripts) :
          /\ loads(html.scripts[i]) # JSONDecodeError
          /\ is_dict(loads(html.scripts[i]))
          /\ has_key(loads(html.scripts[i]), "funding_rounds")
          /\ has_key(loads(html.scripts[i]), "investors")

\* the type names of the claim
ClaimedOrgTypes == {"organization", "corp", "corporation", "company"}

\* an object whose @type is one of the names, or a list with any such entry
qualifies(obj) ==
    LET declared == get(obj, "@type")
    IN IF is_str(declared) THEN lower(declared[2]) \in ClaimedOrgTypes
       ELSE IF is_list(declared)
       THEN \E i \in 1..Len(declared[2]) :
               is_str(declared[2][i]) /\ lower(declared[2][i][2]) \in ClaimedOrgTypes
       ELSE FALSE

\* the objects of the structured-metadata blocks in document order: a block
\* that is an object, or the objects of a block that is a list; a block with
\* malformed JSON has none
block_objects ==
    LET blocks == ld_scripts(html)
        objects(b) == IF loads(b) = JSONDecodeError THEN <<>>
                      ELSE IF is_dict(loads(b)) THEN <<loads(b)>>
                      ELSE IF is_list(loads(b)) THEN SelectSeq(loads(b)[2], is_dict)
                      ELSE <<>>
    IN concat([i \in 1..Len(blocks) |-> objects(blocks[i])])

\* the locator has returned
Located == pc \notin {"locate", "raised"}

\* C12: the structured-metadata locator returns the first object, in document
\* order of the blocks, whose @type case-insensitively is one of Organization,
\* Corp, Corporation, Company, as a string or as any entry of a list; it
\* returns none when no object qualifies; malformed blocks and non-object
\* candidates before the match do not prevent it.
C12_FirstOrganization ==
    Located =>
        LET objects == block_objects
            matches == {i \in 1..Len(objects) : qualifies(objects[i])}
        IN IF matches = {} THEN ld_org = None
           ELSE ld_org = objects[CHOOSE i \in matches : \A j \in matches : i <= j]

-----------------------------------------------------------------------------
(* Properties of the driver and the crawler.                               *)

\* main() returned normally
Exited == main_pc = "exited" /\ exit_status = 0

\* the attempts that got a response with no error status
answered(url) ==
    {n \in 1..max_retries :
        session_get(url, n) # RequestException /\ session_get(url, n)[2] < 400}

\* the record the claim expects of one identifier run on its own: the page of
\* the first answered attempt, extracted; None when the URL cannot be built,
\* no attempt is answered or the extraction raises
expected(identifier) ==
    LET built == build_profile_url(strip(identifier))
        hits == answered(built.value)
        answer == session_get(built.value, CHOOSE n \in hits : \A m \in hits : n <= m)
        data == extract_company_data(answer[3], answer[4])
    IN IF strip(identifier) = "" \/ built.raised THEN None
       ELSE IF hits = {} THEN None
       ELSE IF data.raised THEN None
       ELSE Record(data.value)

\* the result list of the sequential loop: the expected records in input order
sequential_results ==
    SelectSeq([i \in 1..Len(identifiers) |-> expected(identifiers[i])], LAMBDA v : v # None)

count(seq, v) == Cardinality({i \in 1..Len(seq) : seq[i] = v})

\* C13: in every interleaving of the worker tasks, and in sequential mode, a
\* task that fails (no HTML, or an exception in fetch or extract) contributes
\* no record, the result list holds exactly the records the collected tasks
\* delivered, and a failure leaves the siblings' outcomes as they are on their
\* own: when all tasks have finished the result list holds exactly one record for each
\* identifier whose fetch and extraction succeeded and nothing else, the same
\* records as under sequential execution.
C13_FailuresIsolated ==
    /\ \A i \in 1..Len(tasks) :
          (/\ tasks[i].pc \in {"finished", "collected"}
           /\ (tasks[i].fetched \in {NotFetched, FetchRaised} \/ tasks[i].fetched[2] = None))
          => tasks[i].value = None
    /\ \A k \in 1..Len(results) :
          count(results, results[k])
             = Cardinality({i \in 1..Len(tasks) :
                               tasks[i].pc = "collected" /\ tasks[i].value = results[k]})
    /\ Exited =>
          LET sequential == sequential_results
          IN /\ Len(results) = Len(sequential)
             /\ \A k \in 1..Len(sequential) :
                   count(results, sequential[k]) = count(sequential, sequential[k])
             /\ (max_workers = 1 \/ Len(identifiers) = 1) => results = sequential

\* a pool run with a failed fetch beside two records collected in an order
\* the sequential loop cannot produce
C13_Witness ==
    /\ Exited
    /\ max_workers > 1
    /\ Len(results) = 2
    /\ results # sequential_results
    /\ \E i \in 1..Len(tasks) : tasks[i].value = None

\* C14: when every task ends without a record the driver warns, still writes
\* and reports zero records (the output file named in the summary is written),
\* prints the summary and exits normally; the output file is written only
\* after all tasks have completed; with an empty identifier list the driver
\* exits with a failure status before any fetch is attempted.
C14_ZeroRecordsWritten ==
    /\ (Exited /\ Len(results) = 0) =>
          /\ summary = [records |-> 0, output |-> output_path]
          /\ output_file = File(<<>>)
    /\ output_file # NoFile =>
          \A i \in 1..Len(tasks) : tasks[i].pc \in {"finished", "collected"}
    /\ (Len(identifiers) = 0 /\ main_pc # "read") =>
          /\ main_pc = "exited"
          /\ exit_status = 1
          /\ tasks = <<>>
          /\ summary = NoSummary

\* C15: fetch_company_page makes at most max_retries GET attempts; it returns
\* (html, final_url) at the first attempt answered with a success status and
\* makes no further attempt; it returns (None, attempted_url) exactly when
\* every attempt failed (also when max_retries is 0); it never raises; the
\* delay is taken exactly once after every attempt.
C15_FetchTerminates ==
    \A i \in 1..Len(tasks) :
        LET task == tasks[i]
            hits == answered(task.url)
            last == session_get(task.url, task.gets)
        IN /\ task.gets <= max_retries
           /\ task.sleeps = task.gets
           /\ task.fetched # FetchRaised
           /\ (task.fetched # NotFetched /\ task.fetched[2] # None) =>
                 /\ task.gets \in hits
                 /\ \A n \in hits : task.gets <= n
                 /\ task.fetched = Fetched(Page(last[3]), last[4])
           /\ (task.fetched # NotFetched /\ task.fetched[2] = None) =>
                 /\ hits = {}
                 /\ task.gets = max_retries
                 /\ task.fetched[3] = task.url
           /\ (task.pc \in {"finished", "collected"} /\ task.identifier # "") =>
                 task.fetched # NotFetched

====
